---- MODULE Spec2Model ----
(***************************************************************************)
(* SECOP transport-contract pipeline: Remote Fetcher (secop.py), Snapshot  *)
(* Store (secop.save_to_csv, DataProcessor.load_data), Change Detector     *)
(* (DataProcessor.detect_new_contracts) and Refresh Scheduler              *)
(* (utils/scheduler.py), modelled as state machines.                       *)
(*                                                                         *)
(* Schema Normalizer (secop.process_data, DataProcessor.process_contracts)  *)
(* and Filter Engine (DataProcessor.apply_filters) have machines of their  *)
(* own.                                                                    *)
(*                                                                         *)
(* A DataFrame is a record [cols, rows]: cols is the set of column names,  *)
(* rows the sequence of its rows.  A row is [id, desc]: the value of its   *)
(* identifier column and of its description column (a sequence of words);  *)
(* the Normalizer's rows also carry valor and departamento.                *)
(***************************************************************************)
EXTENDS Integers, Sequences, FiniteSets, TLC

\* ------------------------------------------------------------- bounds
MaxId == 2
MaxRows == 2

Ids == 1..MaxId
\* a text is the sequence of its words
Urbana == <<"estudio", "de", "MOVILIDAD", "urbana">>
Papeleria == <<"compra", "de", "papeleria">>
Descs == {Urbana, Papeleria}
Rows == [id : Ids, desc : Descs]

\* pd.DataFrame(): no columns, no rows
EmptyDF == [cols |-> {}, rows |-> <<>>]

\* DataFrame.empty: true when either axis has length 0
IsEmpty(df) == df.cols = {} \/ df.rows = <<>>

Min(a, b) == IF a < b THEN a ELSE b

SeqsUpTo(S, n) == UNION {[1..k -> S] : k \in 0..n}

RECURSIVE Filter(_, _)
\* the rows of s whose id is in keep, in their original order (boolean-mask indexing)
Filter(s, keep) ==
  IF s = <<>> THEN <<>>
  ELSE IF Head(s).id \in keep THEN <<Head(s)>> \o Filter(Tail(s), keep)
       ELSE Filter(Tail(s), keep)

IdsOf(s) == {s[i].id : i \in DOMAIN s}

\* ------------------------------------------------------ Change Detector
\* the difference `previous_ids - current_ids`, the operands swapped
NewContractIdsSwapped(current_ids, previous_ids) == previous_ids \ current_ids

\* data_processor.py:176
NewContractIds(current_ids, previous_ids) == current_ids \ previous_ids

\* DataProcessor.detect_new_contracts
detect_new_contracts(current_df, previous_df) ==
  IF IsEmpty(previous_df) THEN current_df
  ELSE IF "id_contrato" \notin current_df.cols \/ "id_contrato" \notin previous_df.cols
       THEN EmptyDF                       \* KeyError, caught: pd.DataFrame()
       ELSE [cols |-> current_df.cols,
             rows |-> Filter(current_df.rows,
                             NewContractIds(IdsOf(current_df.rows),
                                            IdsOf(previous_df.rows)))]

\* ------------------------------------------------------ Schema Normalizer
\* column sets of the raw records of the "open" endpoint: as the endpoint names them,
\* and carrying the columns process_contracts requires
SourceCols == {"id_del_proceso", "precio_base", "descripci_n_del_procedimiento"}
CanonCols == {"id_del_proceso", "valor_del_contrato", "fecha_de_firma", "departamento",
              "descripci_n_del_procedimiento"}
\* column sets of the raw records of the "closed" endpoint, with and without a description
ClosedCols == {"proceso_de_compra", "valor_del_contrato", "fecha_de_firma",
               "departamento", "descripcion_del_proceso"}
ClosedNoDescCols == ClosedCols \ {"descripcion_del_proceso"}

\* the comparison is made on the words as written
LowerIdentity(w) == w

\* str.lower() of a word
Lower(w) ==
  CASE w = "MOVILIDAD" -> "movilidad"
    [] w = "Estudio" -> "estudio"
    [] w = "Valle" -> "valle"
    [] w = "Cauca" -> "cauca"
    [] OTHER -> w

LowerText(t) == [i \in DOMAIN t |-> Lower(t[i])]

\* `sub in text`
Contains(text, sub) ==
  \E k \in 0..(Len(text) - Len(sub)) : \A j \in 1..Len(sub) : text[k + j] = sub[j]

\* secop.py:136-141  str.contains('|'.join(keywords), case=False, na=False)
MatchesKeywords(desc, keywords) ==
  \E kw \in keywords : Contains(LowerText(desc), LowerText(kw))

RECURSIVE KeepMatching(_, _)
KeepMatching(s, keywords) ==
  IF s = <<>> THEN <<>>
  ELSE IF MatchesKeywords(Head(s).desc, keywords)
       THEN <<Head(s)>> \o KeepMatching(Tail(s), keywords)
       ELSE KeepMatching(Tail(s), keywords)

Digit == <<"0", "1", "2", "3", "4", "5", "6", "7", "8", "9">>

RECURSIVE str(_)
\* str(n) of a natural number, as the sequence of its digits
str(n) == IF n < 10 THEN <<Digit[n + 1]>> ELSE str(n \div 10) \o <<Digit[(n % 10) + 1]>>

\* ---------------------------------------------------------- cell values
\* A cell of a monetary column is [kind, chars, num, scale]: kind "str" (a string, chars
\* its characters), "none" (None, a missing value), "nan" (float NaN) or "num" (the
\* number num / 10^scale, with no trailing zero in its fraction).
StrCell(chars) == [kind |-> "str", chars |-> chars, num |-> 0, scale |-> 0]
NoneCell == [kind |-> "none", chars |-> <<>>, num |-> 0, scale |-> 0]
NaN == [kind |-> "nan", chars |-> <<>>, num |-> 0, scale |-> 0]

RECURSIVE NumCell(_, _)
NumCell(n, k) ==
  IF k > 0 /\ n % 10 = 0 THEN NumCell(n \div 10, k - 1)
  ELSE [kind |-> "num", chars |-> <<>>, num |-> n, scale |-> k]

DigitChars == {Digit[i] : i \in DOMAIN Digit}
DigitVal(c) == (CHOOSE i \in DOMAIN Digit : Digit[i] = c) - 1

Abs(n) == IF n < 0 THEN 0 - n ELSE n

RECURSIVE PadLeft(_, _)
PadLeft(ds, k) == IF Len(ds) > k THEN ds ELSE PadLeft(<<"0">> \o ds, k)

\* str(x) of a number: sign, integer digits and, for a fraction, '.' and its digits
NumStr(n, k) ==
  LET ds == PadLeft(str(Abs(n)), k)
      whole == SubSeq(ds, 1, Len(ds) - k)
      frac == SubSeq(ds, Len(ds) - k + 1, Len(ds))
  IN (IF n < 0 THEN <<"-">> ELSE <<>>) \o whole
     \o (IF k > 0 THEN <<".">> \o frac ELSE <<>>)

\* data_processor.py:145  .astype(str) of a cell
cell_str(cell) ==
  CASE cell.kind = "str" -> cell.chars
    [] cell.kind = "none" -> <<"N", "o", "n", "e">>
    [] cell.kind = "nan" -> <<"n", "a", "n">>
    [] OTHER -> NumStr(cell.num, cell.scale)

\* the replacement keeps digits only: the sign and the decimal point go too
IsKeptDigitsOnly(c) == c \in DigitChars

\* data_processor.py:146  the characters r'[^\d.-]' does not match
IsKept(c) == c \in DigitChars \cup {".", "-"}

\* data_processor.py:146  .str.replace(r'[^\d.-]', '', regex=True)
str_replace(chars) == SelectSeq(chars, IsKept)

RECURSIVE DigitsToNat(_)
DigitsToNat(ds) ==
  IF ds = <<>> THEN 0 ELSE 10 * DigitsToNat(SubSeq(ds, 1, Len(ds) - 1)) + DigitVal(ds[Len(ds)])

IsDigit(c) == c \in DigitChars
IsPoint(c) == c = "."

\* pd.to_numeric(..., errors='coerce') of a string: an optional '-', digits with at most
\* one '.', at least one digit; anything else is NaN
parse_decimal(chars) ==
  LET neg == chars # <<>> /\ chars[1] = "-"
      body == IF neg THEN Tail(chars) ELSE chars
      digits == SelectSeq(body, IsDigit)
      points == SelectSeq(body, IsPoint)
      point == IF points = <<>> THEN Len(body) + 1
               ELSE CHOOSE i \in DOMAIN body : body[i] = "."
      valid == /\ digits # <<>>
               /\ Len(points) <= 1
               /\ Len(digits) + Len(points) = Len(body)
      n == DigitsToNat(digits)
  IN IF valid THEN NumCell(IF neg THEN 0 - n ELSE n, Len(body) - Min(point, Len(body)))
     ELSE NaN

\* pd.to_numeric(column, errors='coerce') of a cell
to_numeric(cell) ==
  CASE cell.kind = "str" -> parse_decimal(cell.chars)
    [] cell.kind = "none" -> NaN
    [] OTHER -> cell

\* a missing number is left missing
fillna_keeps(cell) == cell

\* data_processor.py:148  .fillna(0)
fillna(cell) == IF cell.kind = "nan" THEN NumCell(0, 0) ELSE cell

\* data_processor.py:145-148  the coercion of one cell of valor_del_contrato
coerce_currency(cell) == fillna(to_numeric(StrCell(str_replace(cell_str(cell)))))

\* the configuration the configuration collaborator supplies (ConfigComponent.load_config)
Configs == {[useFilterKeywords |-> TRUE, keywords |-> {<<"Estudio", "de", "movilidad">>}],
            [useFilterKeywords |-> TRUE, keywords |-> {}],
            [useFilterKeywords |-> FALSE, keywords |-> {<<"Estudio", "de", "movilidad">>}]}

\* the column that holds the amount of a record (the `valor` field of a row)
ValueColumn(cols) ==
  IF "valor_del_contrato" \in cols THEN "valor_del_contrato" ELSE "precio_base"

\* secop.py:111-126  numeric_columns, as far as the amount columns go
numeric_columns(is_secop_ii, cols) ==
  IF is_secop_ii THEN {"precio_base", "valor_total_adjudicacion"} \cap cols
  ELSE {"valor_del_contrato", "valor_total_adjudicacion"} \cap cols

\* secop.py:128-130  pd.to_numeric(df[col], errors='coerce') on the amount of a row
NumericRow(r, is_secop_ii, cols) ==
  IF "valor" \in DOMAIN r /\ ValueColumn(cols) \in numeric_columns(is_secop_ii, cols)
  THEN [r EXCEPT !.valor = to_numeric(r.valor)]
  ELSE r

\* secop.process_data: [raised, df]. raised: the KeyError of df[desc_field] when the
\* description column is absent (secop.py:92-143)
process_data(data, is_secop_ii, config) ==
  LET desc_field == IF is_secop_ii THEN "descripci_n_del_procedimiento"
                    ELSE "descripcion_del_proceso"
      rows == [i \in DOMAIN data.rows |-> NumericRow(data.rows[i], is_secop_ii, data.cols)]
  IN IF data.rows = <<>> THEN [raised |-> FALSE, df |-> EmptyDF]
     ELSE IF config.useFilterKeywords /\ config.keywords # {}
          THEN IF desc_field \notin data.cols
               THEN [raised |-> TRUE, df |-> EmptyDF]
               ELSE [raised |-> FALSE,
                     df |-> [cols |-> data.cols,
                             rows |-> KeepMatching(rows, config.keywords)]]
          ELSE [raised |-> FALSE, df |-> [cols |-> data.cols, rows |-> rows]]

\* data_processor.py:110  required_columns
required_columns == {"valor_del_contrato", "fecha_de_firma", "departamento"}

\* data_processor.py:117-133  column_mapping
column_mapping(contract_type, col) ==
  IF contract_type = "active"
  THEN CASE col = "valor_total_adjudicacion" -> "valor_del_contrato"
         [] col = "precio_base" -> "valor_del_contrato"
         [] col = "id_del_proceso" -> "id_contrato"
         [] col = "descripci_n_del_procedimiento" -> "descripcion_del_proceso"
         [] col = "nombre_de_la_entidad" -> "nombre_entidad"
         [] col = "departamento_entidad" -> "departamento"
         [] OTHER -> col
  ELSE CASE col = "proceso_de_compra" -> "id_contrato"
         [] col = "nombre_de_la_entidad" -> "nombre_entidad"
         [] col = "departamento_entidad" -> "departamento"
         [] OTHER -> col

\* after df.rename two columns carry the name valor_del_contrato: df[name] is then a
\* DataFrame and `.str` raises AttributeError (data_processor.py:138-146)
DuplicateValueColumn(contract_type, cols) ==
  Cardinality({c \in cols : column_mapping(contract_type, c) = "valor_del_contrato"}) > 1

\* data_processor.py:142-148  the amount of a row, coerced
CoerceRow(r) ==
  IF "valor" \in DOMAIN r THEN [r EXCEPT !.valor = coerce_currency(r.valor)] ELSE r

\* DataProcessor.process_contracts (data_processor.py:97-162)
process_contracts(df, contract_type) ==
  IF Len(df.rows) = 0 THEN EmptyDF
  ELSE IF ~(required_columns \subseteq df.cols) THEN EmptyDF
  ELSE IF DuplicateValueColumn(contract_type, df.cols) THEN EmptyDF
  ELSE [cols |-> {column_mapping(contract_type, c) : c \in df.cols},
        rows |-> [i \in DOMAIN df.rows |-> CoerceRow(df.rows[i])]]

\* --------------------------------------------------------- Snapshot Store
\* first and last second of the modelled wall clock
ClockStart == 9
MaxClock == 11

\* width of the modelled timestamp field (its digits stand for YYYYMMDD_HHMMSS)
StampWidth == 2

RECURSIVE Pow10(_)
Pow10(k) == IF k = 0 THEN 1 ELSE 10 * Pow10(k - 1)

\* secop.py:153  datetime.now().strftime('%Y%m%d_%H%M%S'): fixed width, zero padded
strftime(t) == [i \in 1..StampWidth |-> (t \div Pow10(StampWidth - i)) % 10]

RECURSIVE StrGreater(_, _)
\* Python's str `a > b`: lexicographic, a proper prefix is the smaller
StrGreater(a, b) ==
  IF a = <<>> THEN FALSE
  ELSE IF b = <<>> THEN TRUE
  ELSE IF Head(a) # Head(b) THEN Head(a) > Head(b)
  ELSE StrGreater(Tail(a), Tail(b))

Prefixes == {"secop_ii_open", "secop_ii_closed"}

\* a file f'{prefix}_{timestamp}.csv' and what was written to it
File(prefix, stamp, text) == [prefix |-> prefix, stamp |-> stamp, text |-> text]

\* glob.glob(f'{prefix}_*.csv')
Glob(fs, prefix) == {f \in fs : f.prefix = prefix}

\* the file of a non-empty set whose name sorts last
Newest(fs) == CHOOSE f \in fs : \A g \in fs : g = f \/ StrGreater(f.stamp, g.stamp)

\* DataFrame.to_csv(index=False): a header line and one line per row
to_csv(df) == [header |-> df.cols, lines |-> df.rows]

\* pd.read_csv: a file with no header raises EmptyDataError, caught by load_data
read_csv(text) ==
  IF text.header = {} THEN EmptyDF ELSE [cols |-> text.header, rows |-> text.lines]

\* every listed file is removed, the newest one too
OldFilesAll(existing) == existing

\* secop.py:160-164  existing_files.sort(reverse=True); existing_files[1:]
OldFiles(existing) == IF existing = {} THEN {} ELSE existing \ {Newest(existing)}

\* save_to_csv: the files after the call. failing: the old files whose os.remove raises;
\* writeOk: whether df.to_csv succeeds (secop.py:151-178)
save_to_csv(fs, df, prefix, now, failing, writeOk) ==
  LET stamp == strftime(now)
      existing == Glob(fs, prefix)
      removed == OldFiles(existing) \ failing
      kept == fs \ removed
  IN IF writeOk
     THEN {f \in kept : ~(f.prefix = prefix /\ f.stamp = stamp)}
            \cup {File(prefix, stamp, to_csv(df))}
     ELSE kept

\* picks the file whose name compares smallest
PickSmallest(fs) == CHOOSE f \in fs : \A g \in fs : g = f \/ StrGreater(g.stamp, f.stamp)

\* data_processor.py:24-33  the loop keeping the file with `file > active_file`
PickLatest(fs) == Newest(fs)

\* DataProcessor.load_data for one dataset: 'open' / 'closed' in the file name
load_latest(fs, prefix) ==
  IF Glob(fs, prefix) = {} THEN EmptyDF ELSE read_csv(PickLatest(Glob(fs, prefix)).text)

\* DataProcessor.load_data
load_data(fs) == [active |-> load_latest(fs, "secop_ii_open"),
                  historical |-> load_latest(fs, "secop_ii_closed")]

\* ----------------------------------------------- secop entry point
\* One endpoint's part of secop.fetch_and_process_all_data (secop.py:192-196 and
\* 200-204): process_data, then save_to_csv when the table is not empty. raised: an
\* exception left process_data, for the enclosing try to catch. removeOk: os.remove
\* succeeds on the old files; writeOk: df.to_csv succeeds.
pipeline(fs, now, config, data, is_secop_ii, prefix, removeOk, writeOk) ==
  LET p == process_data(data, is_secop_ii, config)
      failing == IF removeOk THEN {} ELSE OldFiles(Glob(fs, prefix))
  IN IF p.raised THEN [raised |-> TRUE, df |-> EmptyDF, files |-> fs]
     ELSE [raised |-> FALSE, df |-> p.df,
           files |-> IF ~IsEmpty(p.df)
                     THEN save_to_csv(fs, p.df, prefix, now, failing, writeOk)
                     ELSE fs]

\* ------------------------------------------------------ Refresh Scheduler
\* scheduler.py:16  self.last_data = None
None == [none |-> TRUE]

\* the guard without the recipient test
ShouldNotifyAnyRecipients(self_last_data, recipients) == self_last_data # None

\* scheduler.py:44  self.last_data is not None and self.notification_recipients
ShouldNotify(self_last_data, recipients) == self_last_data # None /\ recipients # <<>>

\* a delivery failure that escapes notify_if_new_contracts
DeliveryRaisesUncaught(outcome) == outcome = "raised"

\* data_processor.py:189-202  the try/except around detection and delivery: nothing the
\* collaborator does raises out of notify_if_new_contracts
DeliveryRaises(outcome) == FALSE

\* an except branch that reports success and drops the snapshot
OnExceptionReset(self_last_data) == [ret |-> "true", last_data |-> None]

\* scheduler.py:55-57  except Exception: log, return False; self.last_data untouched
OnException(self_last_data) == [ret |-> "false", last_data |-> self_last_data]

\* --------------------------------------------------------- Remote Fetcher
MaxTotal == 6
MaxPageSize == 2

\* secop.py:80  ThreadPoolExecutor(max_workers=5)
max_workers == 5

\* a failed count query answered with 1
get_total_records_one(ok, n) == IF ok THEN n ELSE 1

\* SecopDataFetcher.get_total_records: the remote count, 0 when the query fails
get_total_records(ok, n) == IF ok THEN n ELSE 0

\* the number of full windows only
NumPagesFloor(total, size) == total \div size

\* secop.py:76-77  the number of windows of range(0, total_records, page_size)
NumPages(total, size) == (total + size - 1) \div size

\* secop.py:76-77  params[i] = (offset, page_size), i from 1
Params(total, size) == [i \in 1..NumPages(total, size) |-> <<(i - 1) * size, size>>]

\* the records (by index) the remote holds in window <<offset, size>> of n records
Window(w, n) ==
  LET first == w[1]
      last == Min(w[1] + w[2], n) - 1
  IN [k \in 1..(IF last >= first THEN last - first + 1 ELSE 0) |-> first + k - 1]

\* the page is put in front of what has been accumulated
extend_front(all, data) == data \o all

\* secop.py:82  all_data.extend(data)
extend(all, data) == all \o data

\* a failed request that still hands back the window's records
fetch_page_keeps(w, n, ok) == Window(w, n)

\* SecopDataFetcher.fetch_page: the window's records, [] when the request fails
fetch_page(w, n, ok) == IF ok THEN Window(w, n) ELSE <<>>

\* ----------------------------------------------------------- Filter Engine
\* A row of a normalized table is a record of its cells: valor_del_contrato a number,
\* departamento a text, fecha_de_firma a calendar day.  A Filter Specification is the
\* sequence of the dict's items in insertion order, each [column, value]; a value is
\* [kind, typ, items]: kind "tuple", "list" or "scalar", typ the type of its items
\* ("num", "text", "none"), vals the sequence of them (a scalar has one, None has none).
FilterCols == {"valor_del_contrato", "departamento", "fecha_de_firma"}

\* the dtype of a column of the normalized table
dtype(column) ==
  CASE column = "valor_del_contrato" -> "num"
    [] column = "fecha_de_firma" -> "date"
    [] OTHER -> "text"

\* .astype(str) of a cell, str(value) of a scalar
astype_str(typ, x) == IF typ = "text" THEN x ELSE str(x)

\* the tuple is truthy when one of its items is
TruthyAnyItem(value) ==
  /\ value.vals # <<>>
  /\ \E i \in DOMAIN value.vals :
       IF value.typ = "num" THEN value.vals[i] # 0 ELSE value.vals[i] # <<>>

\* data_processor.py:211  `if value:`  a non-empty tuple or list, a non-zero number,
\* a non-empty string
Truthy(value) ==
  IF value.kind = "scalar"
  THEN value.vals # <<>>
       /\ (IF value.typ = "num" THEN value.vals[1] # 0 ELSE value.vals[1] # <<>>)
  ELSE value.vals # <<>>

RECURSIVE BoolMaskFrom(_, _, _)
BoolMaskFrom(rows, keep, i) ==
  IF i > Len(rows) THEN <<>>
  ELSE (IF i \in keep THEN <<rows[i]>> ELSE <<>>) \o BoolMaskFrom(rows, keep, i + 1)

RECURSIVE BoolMaskReversedFrom(_, _, _)
BoolMaskReversedFrom(rows, keep, i) ==
  IF i > Len(rows) THEN <<>>
  ELSE BoolMaskReversedFrom(rows, keep, i + 1) \o (IF i \in keep THEN <<rows[i]>> ELSE <<>>)

\* the selected rows, last one first
BoolMaskReversed(rows, keep) == BoolMaskReversedFrom(rows, keep, 1)

\* filtered_df[mask]: the rows at the positions in keep, in their original order
BoolMask(rows, keep) == BoolMaskFrom(rows, keep, 1)

\* data_processor.py:224-227  (col >= value[0]) & (col <= value[1]); also the date range
\* of lines 218-221, compared by calendar day
InRange(x, value) == value.vals[1] <= x /\ x <= value.vals[2]

\* data_processor.py:229  col.isin(value)
isin(column, x, value) ==
  /\ value.typ = dtype(column)
  /\ \E i \in DOMAIN value.vals : value.vals[i] = x

\* data_processor.py:231-235  col.astype(str).str.contains(str(value), case=False)
str_contains(column, x, value) ==
  Contains(LowerText(astype_str(dtype(column), x)),
           LowerText(astype_str(value.typ, value.vals[1])))

\* every entry is applied to the original table, not to the rows kept so far
NextFrameOriginal(df_rows, filtered_rows) == df_rows

\* data_processor.py:218,224,229,231  the frame the next mask is taken from: filtered_df
NextFrame(df_rows, filtered_rows) == filtered_rows

\* one iteration of the loop of apply_filters (data_processor.py:210-235) on the rows
\* kept so far: [raised, rows]
ApplyEntry(df, rows, column, value) ==
  LET frame == NextFrame(df.rows, rows)
      Keep(P(_)) == BoolMask(frame, {i \in DOMAIN frame : P(frame[i][column])})
      InR(x) == InRange(x, value)
      IsIn(x) == isin(column, x, value)
      Has(x) == str_contains(column, x, value)
  IN IF ~Truthy(value) THEN [raised |-> FALSE, rows |-> rows]
     ELSE IF value.kind = "tuple" /\ Len(value.vals) = 2
     THEN IF column \notin df.cols THEN [raised |-> FALSE, rows |-> rows]
          ELSE IF dtype(column) = "text"
               THEN [raised |-> TRUE, rows |-> rows]      \* TypeError: str against int
               ELSE [raised |-> FALSE, rows |-> Keep(InR)]
     ELSE IF column \notin df.cols THEN [raised |-> TRUE, rows |-> rows]   \* KeyError
     ELSE IF value.kind = "list" THEN [raised |-> FALSE, rows |-> Keep(IsIn)]
     ELSE [raised |-> FALSE, rows |-> Keep(Has)]

RECURSIVE ApplyEntries(_, _, _, _)
ApplyEntries(df, rows, filters, i) ==
  IF i > Len(filters) THEN [raised |-> FALSE, rows |-> rows]
  ELSE LET r == ApplyEntry(df, rows, filters[i].column, filters[i].value)
       IN IF r.raised THEN r ELSE ApplyEntries(df, r.rows, filters, i + 1)

\* DataProcessor.apply_filters (data_processor.py:205-240): the rows of the returned table
apply_filters(df, filters) ==
  LET r == ApplyEntries(df, df.rows, filters, 1)
  IN IF r.raised THEN df.rows ELSE r.rows


VARIABLES current_df, previous_df, new_contracts, d_pc,
          files, clock, loaded, lastSaved, s_op, removeFailed,
          f_pc, remote, page_size, countFailed, total_records, params,
          task, results, nextResult, all_data, pageRequests, pageFailed,
          overtaken,
          pc, last_data, notification_recipients, imported, config, current_active_df,
          new_found, ret, cycles, snapshotBefore, raised, sent, delivery,
          fetched, prevFetched, fetchFailed, writeFailed, seen_ids,
          filter_df, filters, filtered_df, a_pc,
          raw_value, coerced, c_pc,
          n_data, n_type, n_config, n_df, n_out, n_pc,
          call_pc, call_stamp, call_todo, written, deletedNew, listedNew,
          scheduler_running, job_store, self_last_data, t_pc, t_current, t_previous,
          stop_raised

detVars == <<current_df, previous_df, new_contracts, d_pc>>
storeVars == <<files, clock, loaded, lastSaved, s_op, removeFailed>>
fetchVars == <<f_pc, remote, page_size, countFailed, total_records, params,
               task, results, nextResult, all_data, pageRequests, pageFailed,
               overtaken>>
schedVars == <<pc, last_data, notification_recipients, imported, config,
               current_active_df,
               new_found, ret, cycles, snapshotBefore, raised, sent, delivery,
               fetched, prevFetched, fetchFailed, writeFailed, seen_ids>>
filtVars == <<filter_df, filters, filtered_df, a_pc>>
curVars == <<raw_value, coerced, c_pc>>
normVars == <<n_data, n_type, n_config, n_df, n_out, n_pc>>
saveVars == <<call_pc, call_stamp, call_todo, written, deletedNew, listedNew>>
timerVars == <<scheduler_running, job_store, self_last_data, t_pc, t_current, t_previous,
               stop_raised>>
pureVars == <<filtVars, curVars, normVars, saveVars, timerVars>>
vars == <<detVars, storeVars, fetchVars, schedVars, pureVars>>

DetIdle ==
  /\ current_df = EmptyDF /\ previous_df = EmptyDF
  /\ new_contracts = EmptyDF /\ d_pc = "off"

NotLoaded == [active |-> EmptyDF, historical |-> EmptyDF]

StoreIdle ==
  /\ files = {} /\ clock = ClockStart /\ loaded = NotLoaded
  /\ lastSaved = [p \in Prefixes |-> EmptyDF] /\ s_op = "off" /\ removeFailed = FALSE

FetchIdle ==
  /\ f_pc = "off" /\ remote = 0 /\ page_size = 1 /\ countFailed = FALSE
  /\ total_records = 0 /\ params = <<>> /\ task = <<>> /\ results = <<>>
  /\ nextResult = 1 /\ all_data = <<>> /\ pageRequests = <<>> /\ pageFailed = {}
  /\ overtaken = FALSE

\* no configuration loaded
NoConfig == [useFilterKeywords |-> FALSE, keywords |-> {}]

NotSent == [invoked |-> FALSE, contracts |-> <<>>, recipients |-> <<>>]

SchedIdle ==
  /\ pc = "off" /\ last_data = None /\ notification_recipients = <<>>
  /\ imported = FALSE /\ config = NoConfig
  /\ current_active_df = EmptyDF /\ new_found = EmptyDF
  /\ ret = "none" /\ cycles = 0 /\ snapshotBefore = None /\ raised = FALSE
  /\ sent = NotSent /\ delivery = "none" /\ fetched = EmptyDF /\ prevFetched = None
  /\ fetchFailed = FALSE /\ writeFailed = FALSE /\ seen_ids = {}

FiltIdle ==
  /\ filter_df = EmptyDF /\ filters = <<>> /\ filtered_df = EmptyDF /\ a_pc = "off"

CurIdle == raw_value = NoneCell /\ coerced = NoneCell /\ c_pc = "off"

NormIdle ==
  /\ n_data = EmptyDF /\ n_type = "active" /\ n_config = NoConfig
  /\ n_df = EmptyDF /\ n_out = EmptyDF /\ n_pc = "off"

Calls == {"A", "B"}

SaveIdle ==
  /\ call_pc = [c \in Calls |-> "off"] /\ call_stamp = [c \in Calls |-> <<>>]
  /\ call_todo = [c \in Calls |-> {}] /\ written = {}
  /\ deletedNew = FALSE /\ listedNew = FALSE

Threads == {"timer", "manual"}

TimerIdle ==
  /\ scheduler_running = FALSE /\ job_store = {} /\ self_last_data = None
  /\ t_pc = [th \in Threads |-> "idle"]
  /\ t_current = [th \in Threads |-> None] /\ t_previous = [th \in Threads |-> None]
  /\ stop_raised = FALSE

ConcIdle == SaveIdle /\ TimerIdle

PureIdle == FiltIdle /\ CurIdle /\ NormIdle /\ ConcIdle

\* normalized tables the detector is handed: with or without the identifier column
DetCols == {{"id_contrato", "descripcion_del_proceso"}, {"descripcion_del_proceso"}}
DetTables == {EmptyDF} \cup [cols : DetCols, rows : SeqsUpTo(Rows, MaxRows)]

DetInit ==
  /\ current_df \in DetTables
  /\ previous_df \in DetTables
  /\ new_contracts = EmptyDF
  /\ d_pc = "call"
  /\ StoreIdle /\ FetchIdle /\ SchedIdle /\ PureIdle

DetectNew ==
  /\ d_pc = "call"
  /\ new_contracts' = detect_new_contracts(current_df, previous_df)
  /\ d_pc' = "returned"
  /\ UNCHANGED <<current_df, previous_df, storeVars, fetchVars, schedVars, pureVars>>

DetNext == DetectNew

SpecDetect == DetInit /\ [][DetNext]_vars

\* a table of Contract Records: it carries the contract id column, or is the empty table
HasContractId(df) == df = EmptyDF \/ "id_contrato" \in df.cols

\* C1: detect_new(current, previous) is exactly the rows of current whose contract id is
\* in ids(current) \ ids(previous); detect_new(X, empty) = X for non-empty X;
\* detect_new(X, X) is empty.
C1_DetectNewIsSetDifference ==
  (d_pc = "returned" /\ HasContractId(current_df) /\ HasContractId(previous_df)) =>
     /\ new_contracts.rows =
          Filter(current_df.rows, IdsOf(current_df.rows) \ IdsOf(previous_df.rows))
     /\ (new_contracts.rows # <<>> => new_contracts.cols = current_df.cols)
     /\ (IsEmpty(previous_df) /\ ~IsEmpty(current_df) => new_contracts = current_df)
     /\ (previous_df = current_df => IsEmpty(new_contracts))

\* a current table with an old and a new contract, diffed against a non-empty previous one
C1_Witness ==
  /\ d_pc = "returned"
  /\ HasContractId(current_df) /\ HasContractId(previous_df)
  /\ ~IsEmpty(previous_df)
  /\ IdsOf(current_df.rows) \cap IdsOf(previous_df.rows) # {}
  /\ IdsOf(current_df.rows) \ IdsOf(previous_df.rows) # {}
  /\ Len(new_contracts.rows) = 1

\* ------------------------------------------------- Snapshot Store machine
\* the tables handed to save: one contract each (secop.py:194 saves non-empty tables
\* only). lastSaved[p] is the table of the last save of p whose write succeeded, EmptyDF
\* while there is none.
SaveTables == [cols : {{"id_del_proceso"}},
               rows : {<<[id |-> i, desc |-> Papeleria]>> : i \in Ids}]

StoreInit ==
  /\ DetIdle /\ FetchIdle /\ SchedIdle /\ PureIdle
  /\ files = {} /\ clock = ClockStart /\ loaded = NotLoaded
  /\ lastSaved = [p \in Prefixes |-> EmptyDF] /\ s_op = "init" /\ removeFailed = FALSE

\* the wall clock advances between calls
Tick ==
  /\ clock < MaxClock
  /\ clock' = clock + 1
  /\ s_op' = "tick"
  /\ loaded' = NotLoaded
  /\ UNCHANGED <<files, lastSaved, removeFailed, detVars, fetchVars, schedVars, pureVars>>

\* one call of save_to_csv(df, prefix), start to return
SaveToCsv ==
  \E df \in SaveTables, prefix \in Prefixes, writeOk \in BOOLEAN :
    \E failing \in SUBSET OldFiles(Glob(files, prefix)) :
      /\ files' = save_to_csv(files, df, prefix, clock, failing, writeOk)
      /\ lastSaved' = IF writeOk THEN [lastSaved EXCEPT ![prefix] = df] ELSE lastSaved
      /\ removeFailed' = (removeFailed \/ failing # {})
      /\ s_op' = IF writeOk THEN "saved" ELSE "save_failed"
      /\ loaded' = NotLoaded
      /\ UNCHANGED <<clock, detVars, fetchVars, schedVars, pureVars>>

\* one call of DataProcessor.load_data()
LoadData ==
  /\ loaded' = load_data(files)
  /\ s_op' = "loaded"
  /\ UNCHANGED <<files, clock, lastSaved, removeFailed, detVars, fetchVars, schedVars, pureVars>>

StoreNext == Tick \/ SaveToCsv \/ LoadData

SpecStore == StoreInit /\ [][StoreNext]_vars

\* C3: after one or more completed saves for a dataset tag (no deletion having failed),
\* exactly one snapshot file of that tag exists.
C3_ExactlyOneFilePerTag ==
  (s_op = "saved" /\ ~removeFailed) =>
    \A p \in Prefixes : lastSaved[p] # EmptyDF => Cardinality(Glob(files, p)) = 1

\* the file of a tag whose name is lexicographically greatest
GreatestName(fs) == CHOOSE f \in fs : \A g \in fs : ~StrGreater(g.stamp, f.stamp)

\* C4: load_latest loads the file with the lexicographically greatest name, which holds
\* the most recently saved table; with no file of the tag it returns an empty table.
C4_LoadLatestIsLastSaved ==
  s_op = "loaded" =>
    /\ \A p \in Prefixes :
         LET got == IF p = "secop_ii_open" THEN loaded.active ELSE loaded.historical
         IN /\ Glob(files, p) = {} => got = EmptyDF
            /\ Glob(files, p) # {} => got = read_csv(GreatestName(Glob(files, p)).text)
            /\ lastSaved[p] # EmptyDF => got = lastSaved[p]

\* two snapshots of the active tag on disk, the stamps crossing from 09 to 10, the newer
\* one loaded
C4_Witness ==
  /\ s_op = "loaded"
  /\ Cardinality(Glob(files, "secop_ii_open")) >= 2
  /\ \E f, g \in Glob(files, "secop_ii_open") :
        /\ f.stamp = strftime(9) /\ g.stamp = strftime(10)
        /\ f.text # g.text
        /\ loaded.active = read_csv(g.text)
  /\ loaded.active = lastSaved["secop_ii_open"]

\* -------------------------------------------------- Remote Fetcher machine
\* One call of fetch_all_data(page_size) against a source holding `remote` records.
\* task[i] is the state of the pool's task for params[i]: "queued", "running", "done";
\* results[i] is what fetch_page returned for it; pageRequests[i] counts the HTTP
\* requests issued for window i; nextResult is the index executor.map yields next;
\* pageFailed is the set of windows whose request failed; overtaken tells that some
\* request completed while the request of an earlier window had not.
FetchInit ==
  /\ DetIdle /\ StoreIdle /\ SchedIdle /\ PureIdle
  /\ f_pc = "count"
  /\ remote \in 0..MaxTotal
  /\ page_size \in 1..MaxPageSize
  /\ countFailed = FALSE /\ total_records = 0
  /\ params = <<>> /\ task = <<>> /\ results = <<>>
  /\ nextResult = 1 /\ all_data = <<>> /\ pageRequests = <<>> /\ pageFailed = {}
  /\ overtaken = FALSE

\* secop.py:71-78  the count query, the early return, the windows, executor.map's submit
GetTotalRecords ==
  /\ f_pc = "count"
  /\ \E ok \in BOOLEAN :
       LET total == get_total_records(ok, remote)
           ps == Params(total, page_size)
       IN /\ countFailed' = ~ok
          /\ total_records' = total
          /\ IF total = 0
             THEN /\ f_pc' = "returned"
                  /\ UNCHANGED <<params, task, results, pageRequests>>
             ELSE /\ f_pc' = "map"
                  /\ params' = ps
                  /\ task' = [i \in DOMAIN ps |-> "queued"]
                  /\ results' = [i \in DOMAIN ps |-> <<>>]
                  /\ pageRequests' = [i \in DOMAIN ps |-> 0]
  /\ UNCHANGED <<remote, page_size, nextResult, all_data, pageFailed, overtaken,
                 detVars, storeVars, schedVars, pureVars>>

Running == {i \in DOMAIN task : task[i] = "running"}

\* a pool that never runs out of workers
HasFreeWorkerAlways(running) == TRUE

\* secop.py:80  ThreadPoolExecutor(max_workers=5): a worker is free
HasFreeWorker(running) == Cardinality(running) < max_workers

\* a free worker of the pool takes the oldest queued task and issues its request
\* (secop.py:62)
StartPage ==
  /\ f_pc = "map"
  /\ HasFreeWorker(Running)
  /\ \E i \in DOMAIN task :
       /\ task[i] = "queued"
       /\ \A j \in 1..(i - 1) : task[j] # "queued"
       /\ task' = [task EXCEPT ![i] = "running"]
       /\ pageRequests' = [pageRequests EXCEPT ![i] = @ + 1]
  /\ UNCHANGED <<f_pc, remote, page_size, countFailed, total_records, params,
                 results, nextResult, all_data, pageFailed, overtaken,
                 detVars, storeVars, schedVars, pureVars>>

\* a request completes: fetch_page returns the window or, on any error, []
\* (secop.py:61-67)
FinishPage ==
  /\ f_pc = "map"
  /\ \E i \in Running, ok \in BOOLEAN :
       /\ task' = [task EXCEPT ![i] = "done"]
       /\ results' = [results EXCEPT ![i] = fetch_page(params[i], remote, ok)]
       /\ pageFailed' = IF ok THEN pageFailed ELSE pageFailed \cup {i}
       /\ overtaken' = (overtaken \/ \E j \in 1..(i - 1) : task[j] # "done")
  /\ UNCHANGED <<f_pc, remote, page_size, countFailed, total_records, params,
                 nextResult, all_data, pageRequests, detVars, storeVars, schedVars, pureVars>>

\* the caller's loop takes the next result of executor.map, in submission order
\* (secop.py:81-82)
Collect ==
  /\ f_pc = "map"
  /\ nextResult \in DOMAIN task
  /\ task[nextResult] = "done"
  /\ all_data' = extend(all_data, results[nextResult])
  /\ nextResult' = nextResult + 1
  /\ UNCHANGED <<f_pc, remote, page_size, countFailed, total_records, params,
                 task, results, pageRequests, pageFailed, overtaken,
                 detVars, storeVars, schedVars, pureVars>>

\* secop.py:88-89  the loop is exhausted, the pool shut down: return all_data
ReturnAll ==
  /\ f_pc = "map"
  /\ nextResult = Len(task) + 1
  /\ f_pc' = "returned"
  /\ UNCHANGED <<remote, page_size, countFailed, total_records, params, task, results,
                 nextResult, all_data, pageRequests, pageFailed, overtaken,
                 detVars, storeVars, schedVars, pureVars>>

FetchNext == GetTotalRecords \/ StartPage \/ FinishPage \/ Collect \/ ReturnAll

SpecFetch == FetchInit /\ [][FetchNext]_vars

\* C10: when the count query reports zero records, or fails, fetch_all issues no page
\* request and returns an empty list.
C10_ZeroTotalNoPageRequests ==
  (f_pc = "returned" /\ (countFailed \/ remote = 0)) =>
     /\ pageRequests = <<>>
     /\ all_data = <<>>

\* the count query failed against a source that does hold records
C10_Witness ==
  /\ f_pc = "returned" /\ countFailed /\ remote > 0
  /\ total_records = 0 /\ all_data = <<>>

RECURSIVE SucceededRecords(_, _, _, _)
\* the records of windows i..Len(ps) of a source of n records, the failed ones left out
SucceededRecords(ps, n, failed, i) ==
  IF i > Len(ps) THEN <<>>
  ELSE (IF i \in failed THEN <<>> ELSE Window(ps[i], n))
       \o SucceededRecords(ps, n, failed, i + 1)

\* C11: whatever subset of page requests fails, fetch_all returns (it neither raises nor
\* aborts), every window was requested exactly once, a failed page contributed the
\* empty list, and the result holds exactly the records of the pages that succeeded.
C11_FailedPagesContributeNothing ==
  /\ (f_pc = "map" /\ nextResult > Len(task)) => ENABLED ReturnAll
  /\ \A i \in DOMAIN pageRequests : pageRequests[i] <= 1
  /\ \A i \in pageFailed : task[i] = "done" /\ results[i] = <<>>
  /\ (f_pc = "returned" /\ total_records > 0) =>
        /\ DOMAIN pageRequests = DOMAIN params
        /\ \A i \in DOMAIN params : pageRequests[i] = 1
        /\ all_data = SucceededRecords(params, remote, pageFailed, 1)

\* a fetch of at least three windows of which some failed and some succeeded
C11_Witness ==
  /\ f_pc = "returned" /\ Len(params) >= 3
  /\ pageFailed # {} /\ pageFailed # DOMAIN params
  /\ all_data # <<>>
  /\ Len(all_data) < remote

\* the records (indices at the source) are in increasing offset order
InOffsetOrder(q) == \A i \in 1..(Len(q) - 1) : q[i] < q[i + 1]

\* C26 as stated: page results are concatenated in arrival order, so that when a page
\* of a later offset completes before a page of an earlier offset its records come
\* first and the result is not in offset order.
C26_ArrivalOrder ==
  (f_pc = "returned" /\ overtaken /\ pageFailed = {}) => ~InOffsetOrder(all_data)

\* C26 amended: page results are concatenated in submission (offset) order, whatever the
\* order in which the requests complete: executor.map yields them in the order of params.
C26_SubmissionOrder ==
  /\ InOffsetOrder(all_data)
  /\ (f_pc = "returned" /\ pageFailed = {} /\ total_records > 0) =>
        all_data = [k \in 1..remote |-> k - 1]

\* a fetch in which a later page completed before an earlier one, all pages succeeding
C26_Witness ==
  /\ f_pc = "returned" /\ overtaken /\ pageFailed = {}
  /\ Len(params) >= 2 /\ Len(all_data) = remote

\* C27: at most 5 page requests are in flight at any moment; a worker only sets the
\* result of its own page, and only the calling thread appends to the accumulated result.
C27_AtMostFiveInFlight ==
  /\ Cardinality(Running) <= 5
  /\ \A i \in DOMAIN task : task[i] # "done" => results[i] = <<>>
  /\ Len(all_data) <= Len(SucceededRecords(params, remote, pageFailed, 1))
  /\ \A i \in DOMAIN task : i >= nextResult /\ task[i] = "done" /\ i \notin pageFailed =>
        \A k \in DOMAIN results[i] : \A m \in DOMAIN all_data : all_data[m] # results[i][k]

\* five requests in flight and a sixth window waiting for a worker
C27_Witness ==
  /\ f_pc = "map" /\ Cardinality(Running) = 5
  /\ \E i \in DOMAIN task : task[i] = "queued"

\* C28: for total >= 1 and page_size >= 1 the windows are (0, page_size), (page_size,
\* page_size), ... in increasing offset order, ceil(total / page_size) of them, pairwise
\* disjoint and together covering every record index of 0 .. total-1.
C28_WindowsCoverTotal ==
  (f_pc = "map") =>
     /\ \A i \in DOMAIN params : params[i] = <<(i - 1) * page_size, page_size>>
     /\ (Len(params) - 1) * page_size < total_records
     /\ total_records <= Len(params) * page_size
     /\ \A k \in 0..(total_records - 1) :
          Cardinality({i \in DOMAIN params :
                         params[i][1] <= k /\ k < params[i][1] + params[i][2]}) = 1

\* five records in windows of two: three windows, the last one half full
C28_Witness ==
  /\ f_pc = "map" /\ total_records = 5 /\ page_size = 2
  /\ params = <<(<<0, 2>>), (<<2, 2>>), (<<4, 2>>)>>

\* ------------------------------------------------ Refresh Scheduler machine
\* One DataUpdateScheduler used from one thread: set_notification_recipients and
\* update_data (through force_update or the interval job), one call at a time. pc is the
\* position inside update_data. The variables from snapshotBefore on record the current
\* cycle: the snapshot at its start, whether an exception reached update_data's except
\* clause, what the notification collaborator was handed and how delivery ended, what
\* secop returned as the active table in this cycle and in the cycle before it (None when
\* there was none or it raised), whether both count queries failed, whether writing the
\* active snapshot failed.
strictly_increasing(s) == \A i \in 1..(Len(s) - 1) : s[i].id < s[i + 1].id

\* the record the "open" endpoint holds under an id: odd ids describe a mobility study
OpenRecord(i) == [id |-> i, desc |-> IF i % 2 = 1 THEN Urbana ELSE Papeleria]

\* what fetch_all_data can return for the "open" endpoint, as pd.DataFrame(data): any
\* records of the endpoint, in increasing id order
RawOpen == {EmptyDF} \cup
  [cols : {SourceCols, CanonCols},
   rows : {r \in SeqsUpTo({OpenRecord(i) : i \in Ids}, MaxId) :
             r # <<>> /\ strictly_increasing(r)}]

\* what fetch_all_data can return for the "closed" endpoint
RawClosed == {EmptyDF} \cup
  [cols : {ClosedCols, ClosedNoDescCols}, rows : {<<[id |-> 1, desc |-> Urbana]>>}]

RecipientLists == {<<>>, <<"ana@example.co">>, <<"luis@example.co">>}

Init ==
  /\ DetIdle /\ FetchIdle /\ PureIdle
  /\ files = {} /\ clock = ClockStart /\ loaded = NotLoaded
  /\ lastSaved = [p \in Prefixes |-> EmptyDF] /\ s_op = "off" /\ removeFailed = FALSE
  /\ pc = "idle" /\ last_data = None /\ notification_recipients = <<>>
  /\ imported = FALSE /\ config = NoConfig
  /\ current_active_df = EmptyDF /\ new_found = EmptyDF
  /\ ret = "none" /\ cycles = 0 /\ snapshotBefore = None /\ raised = FALSE
  /\ sent = NotSent /\ delivery = "none" /\ fetched = EmptyDF /\ prevFetched = None
  /\ fetchFailed = FALSE /\ writeFailed = FALSE /\ seen_ids = {}

storeHist == <<loaded, lastSaved, s_op, removeFailed>>

\* DataUpdateScheduler.set_notification_recipients
SetNotificationRecipients ==
  /\ pc = "idle"
  /\ \E recipients \in RecipientLists : notification_recipients' = recipients
  /\ UNCHANGED <<pc, last_data, imported, config, current_active_df, new_found, ret, cycles,
                 snapshotBefore, raised, sent, delivery, fetched, prevFetched, fetchFailed,
                 writeFailed, files, clock, storeHist, detVars, fetchVars, pureVars, seen_ids>>

\* update_data is entered (force_update, or the interval job firing), some time after the
\* cycle before it
Begin ==
  /\ pc = "idle"
  /\ clock < MaxClock
  /\ pc' = "fetching"
  /\ cycles' = cycles + 1
  /\ clock' = clock + 1
  /\ snapshotBefore' = last_data
  /\ current_active_df' = EmptyDF /\ new_found' = EmptyDF
  /\ ret' = "none" /\ raised' = FALSE /\ sent' = NotSent /\ delivery' = "none"
  /\ config' = NoConfig
  /\ fetchFailed' = FALSE /\ writeFailed' = FALSE
  /\ prevFetched' = IF cycles >= 1 /\ ~raised THEN fetched ELSE None
  /\ fetched' = EmptyDF
  /\ UNCHANGED <<last_data, notification_recipients, imported, files,
                 storeHist, detVars, fetchVars, pureVars, seen_ids>>

\* scheduler.py:36  importlib.import_module('secop') raises; the except clause returns
ImportFails ==
  /\ pc = "fetching"
  /\ ~imported
  /\ raised' = TRUE
  /\ ret' = OnException(last_data).ret
  /\ last_data' = OnException(last_data).last_data
  /\ pc' = "idle"
  /\ UNCHANGED <<notification_recipients, imported, config, current_active_df, new_found, cycles,
                 snapshotBefore, sent, delivery, fetched, prevFetched, fetchFailed, writeFailed,
                 files, clock, storeHist, detVars, fetchVars, pureVars, seen_ids>>

\* the outcomes of the file operations of one save: at most one of them fails
IOOutcomes == {<<TRUE, TRUE>>, <<FALSE, TRUE>>, <<TRUE, FALSE>>}

\* scheduler.py:36-37, secop.py:183-196  the module is imported, the configuration loaded,
\* and the "open" endpoint fetched, processed and saved. failed: the count query (or every
\* page request) failed, so that fetch_all_data returned []. An exception here makes
\* fetch_and_process_all_data return two empty tables (secop.py:207-209).
FetchOpen ==
  /\ pc = "fetching"
  /\ \E cfg \in Configs, data \in RawOpen, failed \in BOOLEAN, io \in IOOutcomes :
       LET r == pipeline(files, clock, cfg, data, TRUE, "secop_ii_open", io[1], io[2])
       IN /\ (failed => data = EmptyDF)
          /\ config' = cfg
          /\ files' = r.files
          /\ fetchFailed' = failed
          /\ writeFailed' = (~r.raised /\ ~IsEmpty(r.df) /\ ~io[2])
          /\ current_active_df' = r.df
          /\ IF r.raised
             THEN /\ fetched' = EmptyDF
                  /\ pc' = "normalizing"
             ELSE /\ UNCHANGED fetched
                  /\ pc' = "fetching_closed"
  /\ imported' = TRUE
  /\ UNCHANGED <<last_data, notification_recipients, new_found, ret, cycles,
                 snapshotBefore, raised, sent, delivery, prevFetched, clock, storeHist,
                 detVars, fetchVars, pureVars, seen_ids>>

\* secop.py:198-209  the "closed" endpoint fetched, processed and saved, and the return of
\* both tables; an exception here returns two empty tables as well
FetchClosed ==
  /\ pc = "fetching_closed"
  /\ \E data \in RawClosed, failed \in BOOLEAN, io \in IOOutcomes :
       LET r == pipeline(files, clock, config, data, FALSE, "secop_ii_closed", io[1], io[2])
           active == IF r.raised THEN EmptyDF ELSE current_active_df
       IN /\ (failed => data = EmptyDF)
          /\ files' = r.files
          /\ fetchFailed' = (fetchFailed /\ failed)
          /\ current_active_df' = active
          /\ fetched' = active
  /\ pc' = "normalizing"
  /\ UNCHANGED <<last_data, notification_recipients, imported, config, new_found, ret,
                 cycles, snapshotBefore, raised, sent, delivery, prevFetched, writeFailed,
                 clock, storeHist, detVars, fetchVars, pureVars, seen_ids>>

\* scheduler.py:40-41  processor.process_contracts(current_active_df, 'active')
Normalize ==
  /\ pc = "normalizing"
  /\ current_active_df' = process_contracts(current_active_df, "active")
  /\ pc' = "diffing"
  /\ UNCHANGED <<last_data, notification_recipients, imported, config, new_found, ret, cycles,
                 snapshotBefore, raised, sent, delivery, fetched, prevFetched, fetchFailed,
                 writeFailed, files, clock, storeHist, detVars, fetchVars, pureVars, seen_ids>>

\* scheduler.py:44-49 and data_processor.py:190  the guard, then the Change Detector
Diff ==
  /\ pc = "diffing"
  /\ IF ShouldNotify(last_data, notification_recipients)
     THEN /\ new_found' = detect_new_contracts(current_active_df, last_data)
          /\ pc' = "notifying"
     ELSE /\ pc' = "updating"
          /\ UNCHANGED new_found
  /\ UNCHANGED <<last_data, notification_recipients, imported, config, current_active_df, ret,
                 cycles, snapshotBefore, raised, sent, delivery, fetched, prevFetched, fetchFailed,
                 writeFailed, files, clock, storeHist, detVars, fetchVars, pureVars, seen_ids>>

\* data_processor.py:192-202  notify_new_contracts(contracts_data, recipients) when there
\* is something new; it returns True, returns False, or raises
Notify ==
  /\ pc = "notifying"
  /\ IF IsEmpty(new_found)
     THEN /\ pc' = "updating"
          /\ UNCHANGED <<sent, delivery, raised, ret, last_data>>
     ELSE \E outcome \in {"ok", "false", "raised"} :
            /\ sent' = [invoked |-> TRUE, contracts |-> new_found.rows,
                        recipients |-> notification_recipients]
            /\ delivery' = outcome
            /\ IF DeliveryRaises(outcome)
               THEN /\ raised' = TRUE
                    /\ ret' = OnException(last_data).ret
                    /\ last_data' = OnException(last_data).last_data
                    /\ pc' = "idle"
               ELSE /\ pc' = "updating"
                    /\ UNCHANGED <<raised, ret, last_data>>
  /\ UNCHANGED <<notification_recipients, imported, config, current_active_df, new_found, cycles,
                 snapshotBefore, fetched, prevFetched, fetchFailed, writeFailed, files, clock,
                 storeHist, detVars, fetchVars, pureVars, seen_ids>>

\* scheduler.py:52-54  self.last_data = current_active_df; return True
Update ==
  /\ pc = "updating"
  /\ last_data' = current_active_df
  /\ ret' = "true"
  /\ pc' = "idle"
  /\ seen_ids' = IF IsEmpty(current_active_df) THEN seen_ids
                 ELSE IdsOf(current_active_df.rows)
  /\ UNCHANGED <<notification_recipients, imported, config, current_active_df, new_found, cycles,
                 snapshotBefore, raised, sent, delivery, fetched, prevFetched, fetchFailed,
                 writeFailed, files, clock, storeHist, detVars, fetchVars, pureVars>>

Next ==
  \/ SetNotificationRecipients
  \/ Begin
  \/ ImportFails
  \/ FetchOpen
  \/ FetchClosed
  \/ Normalize
  \/ Diff
  \/ Notify
  \/ Update

Spec == Init /\ [][Next]_vars

\* C2: two successive cycles, recipients configured, the second one's active table carrying
\* every contract id of the first one's plus exactly one new id: the notification
\* collaborator is handed exactly one Contract Record, the one with the new id.
C2_OneNewContractReported ==
  (/\ pc = "updating"
   /\ prevFetched # None
   /\ notification_recipients # <<>>
   /\ \E x \in Ids : /\ x \notin IdsOf(prevFetched.rows)
                     /\ IdsOf(fetched.rows) = IdsOf(prevFetched.rows) \cup {x})
  => /\ sent.invoked
     /\ Len(sent.contracts) = 1
     /\ sent.contracts[1].id \notin IdsOf(prevFetched.rows)

\* C5: a cycle in which an exception reaches update_data returns False and leaves the
\* last-known snapshot as it was at the start of the cycle; the snapshot differs from the
\* one at the start of the cycle only once the cycle has returned True.
C5_FailedCycleKeepsSnapshot ==
  /\ (raised => (pc = "idle" /\ ret = "false" /\ last_data = snapshotBefore))
  /\ (last_data # snapshotBefore => (pc = "idle" /\ ret = "true"))
  /\ (pc = "idle" /\ cycles > 0 => ret \in {"true", "false"})

\* a cycle that raised has returned False
C5_Witness == raised /\ pc = "idle" /\ ret = "false" /\ cycles >= 1

\* C6: a cycle in which every count query failed (zero records fetched) returns False.
C6_TotalFetchFailureFailsCycle ==
  (pc = "idle" /\ fetchFailed) => ret = "false"

\* C7: a cycle in which writing the new active snapshot failed returns False.
C7_WriteFailureFailsCycle ==
  (pc = "idle" /\ writeFailed) => ret = "false"

\* C8: the notification collaborator is invoked only in a cycle that started with a
\* previous snapshot and with a non-empty recipient list, never in the first cycle; it is
\* handed the Change Detector's output for (current active table, previous snapshot) and
\* the recipient list last set.
C8_NotifyOnlyWithSnapshotAndRecipients ==
  sent.invoked =>
    /\ snapshotBefore # None
    /\ cycles >= 2
    /\ sent.recipients # <<>>
    /\ (pc # "idle" => sent.recipients = notification_recipients)
    /\ sent.contracts = detect_new_contracts(current_active_df, snapshotBefore).rows

\* the collaborator is handed one new contract out of two current ones
C8_Witness ==
  /\ sent.invoked /\ pc = "updating"
  /\ Len(sent.contracts) = 1 /\ Len(current_active_df.rows) = 2
  /\ ~IsEmpty(snapshotBefore)
  /\ sent.recipients = <<"luis@example.co">>

\* C9: a cycle whose notification delivery failed (the collaborator returned False or
\* raised) still returns True, the last-known snapshot being the just-normalized table.
C9_DeliveryFailureKeepsCycle ==
  (delivery \in {"false", "raised"}) =>
     /\ ~raised
     /\ (pc = "idle" => (ret = "true" /\ last_data = current_active_df))

\* a cycle completed after a delivery that raised, the snapshot replaced
C9_Witness ==
  /\ pc = "idle" /\ delivery = "raised" /\ ret = "true"
  /\ last_data = current_active_df /\ last_data # snapshotBefore

\* C23: a cycle performs fetch, normalize, diff, notify in this order and returns to idle;
\* the last-known snapshot is replaced only at the end, after diff and notify have used
\* the previous one; an exception reaching update_data returns the scheduler directly to
\* idle, reported as failed, no later step executed and no retry inside the cycle.
C23_StepOrder ==
  [][/\ (pc = "idle" => pc' \in {"idle", "fetching"})
     /\ (pc = "fetching" => pc' \in {"fetching_closed", "normalizing", "idle"})
     /\ (pc = "fetching" /\ pc' = "idle" => raised')
     /\ (pc = "fetching_closed" => pc' = "normalizing")
     /\ (pc = "normalizing" => pc' = "diffing")
     /\ (pc = "diffing" => pc' \in {"notifying", "updating"})
     /\ (pc = "notifying" => pc' \in {"updating", "idle"})
     /\ (pc = "notifying" /\ pc' = "idle" => raised')
     /\ (pc = "updating" => pc' = "idle")
     /\ (last_data' # last_data => pc = "updating" /\ pc' = "idle" /\ ret' = "true")
     /\ (raised' /\ ~raised =>
           pc' = "idle" /\ ret' = "false" /\ last_data' = last_data)
     /\ (cycles' # cycles => pc = "idle" /\ cycles' = cycles + 1)
     /\ (sent' # sent /\ sent'.invoked => pc = "notifying")
     /\ (new_found' # new_found /\ pc # "idle" =>
           pc = "diffing" /\ new_found' = detect_new_contracts(current_active_df, last_data))
    ]_vars

\* a second cycle went through fetch, normalize, diff and notify and replaced the snapshot
C23_Witness ==
  /\ pc = "idle" /\ cycles >= 2 /\ ret = "true"
  /\ sent.invoked /\ ~IsEmpty(new_found)
  /\ last_data = current_active_df /\ last_data # snapshotBefore

\* the scheduler constructed one second earlier, its recipients set: there is time for
\* one more cycle
InitEarlier ==
  /\ DetIdle /\ FetchIdle /\ PureIdle
  /\ files = {} /\ clock = ClockStart - 1 /\ loaded = NotLoaded
  /\ lastSaved = [p \in Prefixes |-> EmptyDF] /\ s_op = "off" /\ removeFailed = FALSE
  /\ pc = "idle" /\ last_data = None /\ notification_recipients = <<"ana@example.co">>
  /\ imported = FALSE /\ config = NoConfig
  /\ current_active_df = EmptyDF /\ new_found = EmptyDF
  /\ ret = "none" /\ cycles = 0 /\ snapshotBefore = None /\ raised = FALSE
  /\ sent = NotSent /\ delivery = "none" /\ fetched = EmptyDF /\ prevFetched = None
  /\ fetchFailed = FALSE /\ writeFailed = FALSE /\ seen_ids = {}

\* the cycles of a scheduler whose recipients stay as configured
NextConfigured ==
  \/ Begin
  \/ ImportFails
  \/ FetchOpen
  \/ FetchClosed
  \/ Normalize
  \/ Diff
  \/ Notify
  \/ Update

SpecThreeCycles == InitEarlier /\ [][NextConfigured]_vars

\* C29: with recipients configured, a contract id of the last non-empty active table of
\* an earlier successful cycle is never handed to the notification collaborator as new
\* again, also when a cycle in between came out with an empty active table.
C29_KnownContractNotReportedAgain ==
  (pc = "updating" /\ sent.invoked) => IdsOf(sent.contracts) \cap seen_ids = {}

\* C30: the active table fetch_and_process_all_data returns depends on the active
\* pipeline only: once the active snapshot of this call is on disk, the returned active
\* table holds the rows of that snapshot, whatever happens in the historical pipeline.
C30_ActiveTableSurvivesHistoricalFailure ==
  (pc = "normalizing") =>
     \A f \in files :
        (f.prefix = "secop_ii_open" /\ f.stamp = strftime(clock)) =>
           read_csv(f.text) = current_active_df

\* ---------------------------------------------------- Filter Engine machine
\* One call of apply_filters(df, filters) on a normalized table.
Valle == <<"Valle", "del", "Cauca">>
Antioquia == <<"Antioquia">>
Deptos == {Valle, Antioquia}

\* a row of the table: the signing day follows the amount's parity
FilterRow(v, d) ==
  [valor_del_contrato |-> v, departamento |-> d, fecha_de_firma |-> (v % 2) + 1]

FilterRows == {FilterRow(v, d) : v \in 0..MaxId, d \in Deptos}

FilterTables == [cols : {FilterCols}, rows : SeqsUpTo(FilterRows, MaxRows)]

NoneValue == [kind |-> "scalar", typ |-> "none", vals |-> <<>>]
Range(a, b) == [kind |-> "tuple", typ |-> "num", vals |-> <<a, b>>]
ListOf(t, xs) == [kind |-> "list", typ |-> t, vals |-> xs]
Scalar(t, x) == [kind |-> "scalar", typ |-> t, vals |-> <<x>>]

\* the values presentation code puts under a column of the table, or under a column
\* ("estado") the table does not have
FilterValues(column) ==
  CASE column = "valor_del_contrato" ->
         {Range(a, b) : a \in 0..MaxId, b \in 0..MaxId}
         \cup {ListOf("num", <<1>>), ListOf("num", <<0, MaxId>>), ListOf("num", <<>>),
               Scalar("num", 1), Scalar("num", 0), NoneValue}
    [] column = "departamento" ->
         {ListOf("text", <<Antioquia>>), Scalar("text", <<"cauca">>),
          Scalar("text", <<>>), Range(0, 1)}
    [] column = "fecha_de_firma" -> {Range(1, 1), Range(1, 2), NoneValue}
    [] OTHER ->
         {Range(0, 1), ListOf("text", <<Antioquia>>), Scalar("text", <<"cauca">>),
          NoneValue}

FilterEntries ==
  UNION {[column : {c}, value : FilterValues(c)] : c \in FilterCols \cup {"estado"}}

\* a dict of at most two items, in insertion order
FilterSpecs ==
  {<<>>} \cup {<<e>> : e \in FilterEntries}
         \cup {p \in FilterEntries \X FilterEntries : p[1].column # p[2].column}

FiltInit ==
  /\ DetIdle /\ StoreIdle /\ FetchIdle /\ SchedIdle /\ CurIdle /\ NormIdle /\ ConcIdle
  /\ filter_df \in FilterTables
  /\ filters \in FilterSpecs
  /\ filtered_df = EmptyDF
  /\ a_pc = "call"

ApplyFilters ==
  /\ a_pc = "call"
  /\ filtered_df' = [cols |-> filter_df.cols, rows |-> apply_filters(filter_df, filters)]
  /\ a_pc' = "returned"
  /\ UNCHANGED <<filter_df, filters, curVars, normVars, saveVars, timerVars,
                 detVars, storeVars, fetchVars, schedVars>>

FiltNext == ApplyFilters

SpecFilter == FiltInit /\ [][FiltNext]_vars

\* an entry of the specification names a column the table does not have
ReferencesAbsentColumn(df, fs) ==
  \E i \in DOMAIN fs : fs[i].column \notin df.cols /\ Truthy(fs[i].value)

\* C12: a Filter Specification with an entry (range tuple, list or scalar) on a column
\* absent from the table makes apply return the original unfiltered table, whatever its
\* other entries are.
C12_AbsentColumnReturnsOriginal ==
  (a_pc = "returned" /\ ReferencesAbsentColumn(filter_df, filters)) =>
     filtered_df = filter_df

RECURSIVE IsSubSeq(_, _)
\* a is b with some elements left out
IsSubSeq(a, b) ==
  IF a = <<>> THEN TRUE
  ELSE IF b = <<>> THEN FALSE
  ELSE IF Head(a) = Head(b) THEN IsSubSeq(Tail(a), Tail(b)) \/ IsSubSeq(a, Tail(b))
  ELSE IsSubSeq(a, Tail(b))

\* C13: apply(table, spec) returns a sub-sequence of the table's rows (none fabricated
\* or altered, relative order kept), and apply(table, {}) returns the table unchanged.
C13_ResultIsSubSequence ==
  (a_pc = "returned") =>
     /\ IsSubSeq(filtered_df.rows, filter_df.rows)
     /\ filtered_df.cols = filter_df.cols
     /\ (filters = <<>> => filtered_df = filter_df)

\* a filter that kept the first row and dropped exactly one other row
C13_Witness ==
  /\ a_pc = "returned" /\ filters # <<>>
  /\ Len(filter_df.rows) >= 2
  /\ Len(filtered_df.rows) = Len(filter_df.rows) - 1
  /\ filtered_df.rows[1] = filter_df.rows[1]
  /\ filter_df.rows[1] # filter_df.rows[2]
  /\ ~ReferencesAbsentColumn(filter_df, filters)

\* C14: a range entry (min, max) on a non-date column keeps exactly the rows with
\* min <= value <= max, both ends included, for every pair of bounds, zero included.
C14_RangeIsInclusive ==
  (/\ a_pc = "returned" /\ Len(filters) = 1
   /\ filters[1].column = "valor_del_contrato"
   /\ filters[1].value.kind = "tuple") =>
     LET min == filters[1].value.vals[1]
         max == filters[1].value.vals[2]
         Within(r) == min <= r.valor_del_contrato /\ r.valor_del_contrato <= max
     IN filtered_df.rows = SelectSeq(filter_df.rows, Within)

\* the range (0, 0) kept the rows worth 0 and dropped another one
C14_Witness ==
  /\ a_pc = "returned" /\ filters = <<[column |-> "valor_del_contrato", value |-> Range(0, 0)]>>
  /\ filtered_df.rows # <<>>
  /\ Len(filtered_df.rows) < Len(filter_df.rows)
  /\ \A i \in DOMAIN filtered_df.rows : filtered_df.rows[i].valor_del_contrato = 0

\* the predicate an entry stands for; an empty value stands for none
Satisfies(r, e) ==
  IF ~Truthy(e.value) THEN TRUE
  ELSE IF e.value.kind = "tuple" THEN InRange(r[e.column], e.value)
  ELSE IF e.value.kind = "list" THEN isin(e.column, r[e.column], e.value)
  ELSE str_contains(e.column, r[e.column], e.value)

\* every entry is on a column of the table, a range on a numeric or date column
OnExistingColumns(df, fs) ==
  \A i \in DOMAIN fs :
     /\ fs[i].column \in df.cols
     /\ fs[i].value.kind = "tuple" => dtype(fs[i].column) # "text"

SeqRange(q) == {q[i] : i \in DOMAIN q}

\* C15: entries on existing columns compose with AND: the result is exactly the rows
\* satisfying every entry, equals the intersection of the results of each entry alone,
\* does not depend on the order of the entries, and an entry with an empty value is a
\* no-op for its column.
C15_FiltersComposeWithAnd ==
  (a_pc = "returned" /\ Len(filters) = 2 /\ OnExistingColumns(filter_df, filters)) =>
     LET All(r) == Satisfies(r, filters[1]) /\ Satisfies(r, filters[2])
         alone1 == SeqRange(apply_filters(filter_df, <<filters[1]>>))
         alone2 == SeqRange(apply_filters(filter_df, <<filters[2]>>))
         InBoth(r) == r \in alone1 /\ r \in alone2
     IN /\ filtered_df.rows = SelectSeq(filter_df.rows, All)
        /\ filtered_df.rows = SelectSeq(filter_df.rows, InBoth)
        /\ filtered_df.rows = apply_filters(filter_df, <<filters[2], filters[1]>>)
        /\ (~Truthy(filters[2].value) =>
              filtered_df.rows = apply_filters(filter_df, <<filters[1]>>))
        /\ (~Truthy(filters[1].value) =>
              filtered_df.rows = apply_filters(filter_df, <<filters[2]>>))

\* two entries that each keep a different one of two rows, and together keep none
C15_Witness ==
  /\ a_pc = "returned" /\ Len(filters) = 2 /\ OnExistingColumns(filter_df, filters)
  /\ Truthy(filters[1].value) /\ Truthy(filters[2].value)
  /\ Len(filter_df.rows) = 2
  /\ apply_filters(filter_df, <<filters[1]>>) = <<filter_df.rows[1]>>
  /\ apply_filters(filter_df, <<filters[2]>>) = <<filter_df.rows[2]>>
  /\ filtered_df.rows = <<>>

\* ------------------------------------------------- currency coercion machine
\* The coercion of data_processor.py:145-148 applied to one raw cell.
MaxLen == 3

Alphabet == {"$", ",", "-", ".", "1", "5", "g"}

Pesos == <<"$", "1", ",", "2", "3", "4", ",", "5", "6", "7", " ", "C", "O", "P">>
Million == <<"$", "1", ",", "0", "0", "0", ",", "0", "0", "0">>
Garbage == <<"g", "a", "r", "b", "a", "g", "e">>

RawValues ==
  {StrCell(t) : t \in SeqsUpTo(Alphabet, MaxLen)}
  \cup {StrCell(Pesos), StrCell(Million), StrCell(Garbage), NoneCell, NaN,
        NumCell(0 - 5, 0), NumCell(15, 1)}

CurInit ==
  /\ DetIdle /\ StoreIdle /\ FetchIdle /\ SchedIdle /\ FiltIdle /\ NormIdle /\ ConcIdle
  /\ raw_value \in RawValues
  /\ coerced = NoneCell
  /\ c_pc = "call"

Coerce ==
  /\ c_pc = "call"
  /\ coerced' = coerce_currency(raw_value)
  /\ c_pc' = "returned"
  /\ UNCHANGED <<raw_value, filtVars, normVars, saveVars, timerVars,
                 detVars, storeVars, fetchVars, schedVars>>

CurNext == Coerce

SpecCurrency == CurInit /\ [][CurNext]_vars

\* a digit, '.' or '-'
DigitPointOrMinus(c) == c \in {"0", "1", "2", "3", "4", "5", "6", "7", "8", "9", ".", "-"}

\* C18: currency coercion is total: it removes every character that is not a digit, '.'
\* or '-', parses the remainder as a decimal and yields 0 when the remainder does not
\* parse or the value is missing; never null, never an exception ("$1,234,567 COP" gives
\* 1234567, "garbage" gives 0, a missing value gives 0).
C18_CurrencyCoercionIsTotal ==
  /\ c_pc = "call" => ENABLED Coerce
  /\ c_pc = "returned" =>
       LET remainder == SelectSeq(cell_str(raw_value), DigitPointOrMinus)
           parsed == parse_decimal(remainder)
       IN /\ coerced.kind = "num"
          /\ coerced = IF parsed.kind = "nan" THEN NumCell(0, 0) ELSE parsed
          /\ raw_value = StrCell(Pesos) => coerced = NumCell(1234567, 0)
          /\ raw_value = StrCell(Garbage) => coerced = NumCell(0, 0)
          /\ raw_value \in {NoneCell, NaN} => coerced = NumCell(0, 0)

\* "$1,234,567 COP" was coerced to 1234567
C18_Witness ==
  /\ c_pc = "returned"
  /\ raw_value = StrCell(Pesos)
  /\ coerced.kind = "num" /\ coerced.num = 1234567 /\ coerced.scale = 0

\* ------------------------------------------------- Schema Normalizer machine
\* The raw records of one endpoint go through secop.process_data and then through
\* DataProcessor.process_contracts.  A raw record is [id, desc, valor, departamento]:
\* the cells of its identifier, description, amount and department columns, whatever
\* the endpoint names them; a text cell is [null, text].
TextCell(t) == [null |-> FALSE, text |-> t]
NullText == [null |-> TRUE, text |-> <<>>]

MinusFive == <<"-", "5">>

ValorCells == {StrCell(Million), StrCell(MinusFive), StrCell(Garbage), NoneCell}
DeptoCells == {TextCell(Antioquia), NullText}

NormRecord(i, v, d) ==
  [id |-> i, desc |-> OpenRecord(i).desc, valor |-> v, departamento |-> d]

NormRecords == {NormRecord(i, v, d) : i \in Ids, v \in ValorCells, d \in DeptoCells}

\* the raw tables of the open endpoint (source-named, or carrying the required columns)
\* and of the closed endpoint
RawTables(type) ==
  [cols : IF type = "active" THEN {SourceCols, CanonCols} ELSE {ClosedCols},
   rows : SeqsUpTo(NormRecords, MaxRows) \ {<<>>}]

NormInit ==
  /\ DetIdle /\ StoreIdle /\ FetchIdle /\ SchedIdle /\ FiltIdle /\ CurIdle /\ ConcIdle
  /\ n_type \in {"active", "historical"}
  /\ n_data \in RawTables(n_type)
  /\ n_config \in Configs
  /\ n_df = EmptyDF /\ n_out = EmptyDF
  /\ n_pc = "raw"

\* secop.py:193,201  process_data(data, is_secop_ii, config)
ProcessData ==
  /\ n_pc = "raw"
  /\ LET r == process_data(n_data, n_type = "active", n_config)
     IN /\ n_df' = r.df
        /\ n_pc' = IF r.raised THEN "raised" ELSE "processed"
  /\ UNCHANGED <<n_data, n_type, n_config, n_out, filtVars, curVars, saveVars, timerVars,
                 detVars, storeVars, fetchVars, schedVars>>

\* scheduler.py:41, main.py:120-121  process_contracts(df, contract_type)
ProcessContracts ==
  /\ n_pc = "processed"
  /\ n_out' = process_contracts(n_df, n_type)
  /\ n_pc' = "normalized"
  /\ UNCHANGED <<n_data, n_type, n_config, n_df, filtVars, curVars, saveVars, timerVars,
                 detVars, storeVars, fetchVars, schedVars>>

NormNext == ProcessData \/ ProcessContracts

SpecNormalize == NormInit /\ [][NormNext]_vars

\* C16: every Contract Record produced by normalization has contract_value >= 0; a
\* negative or unparseable raw value is clamped to 0.
C16_ContractValueNonNegative ==
  (n_pc = "normalized") =>
     \A i \in DOMAIN n_out.rows :
        n_out.rows[i].valor.kind = "num" /\ n_out.rows[i].valor.num >= 0

\* the raw table carries source-named columns only, and the keyword filter drops nothing
SourceNamedOnly ==
  /\ n_type = "active" /\ n_data.cols = SourceCols
  /\ n_config.keywords = {}

\* C17: ACTIVE raw records with source-named columns only normalize to one Contract
\* Record per raw record, the amount column renamed to the canonical one and
\* contract_value the parsed amount ("$1,000,000" gives 1000000); an absent mapped or
\* canonical column does not empty the result.
C17_SourceNamedRecordsNormalize ==
  (n_pc = "normalized" /\ SourceNamedOnly) =>
     /\ Len(n_out.rows) = Len(n_data.rows)
     /\ "valor_del_contrato" \in n_out.cols
     /\ \A i \in DOMAIN n_out.rows :
          n_data.rows[i].valor = StrCell(Million) =>
             n_out.rows[i].valor = NumCell(1000000, 0)

IdSeq(rows) == [i \in DOMAIN rows |-> rows[i].id]

IsUrbana(r) == r.desc = Urbana

\* C19: with the keyword filter enabled and the keyword "Estudio de movilidad", exactly
\* the rows whose description contains it, case-insensitively, are retained ("estudio de
\* MOVILIDAD urbana" survives, a row with no match is dropped); with an empty keyword
\* list every row is kept, whatever the enabled flag is.
C19_KeywordFilterCaseInsensitive ==
  (n_pc \in {"processed", "normalized"}) =>
     /\ (n_config.useFilterKeywords /\ n_config.keywords # {}) =>
           IdSeq(n_df.rows) = IdSeq(SelectSeq(n_data.rows, IsUrbana))
     /\ n_config.keywords = {} => IdSeq(n_df.rows) = IdSeq(n_data.rows)

\* a table with a matching and a non-matching description, filtered to the matching one
C19_Witness ==
  /\ n_pc = "processed"
  /\ n_config.useFilterKeywords /\ n_config.keywords # {}
  /\ Len(n_data.rows) = 2 /\ Len(n_df.rows) = 1
  /\ n_df.rows[1].desc = Urbana
  /\ \E i \in DOMAIN n_data.rows : n_data.rows[i].desc = Papeleria

\* C20: after normalization no text attribute of a Contract Record is null: a missing
\* text value has been replaced by the "not specified" placeholder.
C20_NoNullTextAttribute ==
  (n_pc = "normalized" /\ "departamento" \in n_out.cols) =>
     \A i \in DOMAIN n_out.rows : ~n_out.rows[i].departamento.null

\* ------------------------------------------ two concurrent saves of one tag
\* Two calls of save_to_csv(df, 'secop_ii_open') run concurrently, call c saving a table
\* of its own.  call_pc[c] is the position of call c: "timestamp" (secop.py:153), "glob"
\* (157-160), "remove" (163-169), "write" (172), "done"; call_stamp[c] is its timestamp,
\* call_todo[c] the names (stamps) of the files it still has to remove.  written is the
\* set of [stamp, by] of the files written by the calls; deletedNew tells that a call has
\* removed a file the other call had written, listedNew that a call has listed one.
TableOf(c) ==
  [cols |-> CanonCols, rows |-> <<OpenRecord(IF c = "A" THEN 1 ELSE MaxId)>>]

\* files left by earlier saves, the latest one possibly in the current second
EarlierFiles ==
  {File("secop_ii_open", strftime(t), to_csv(TableOf("A"))) : t \in (ClockStart - 2)..ClockStart}

SaveTwoInit ==
  /\ DetIdle /\ FetchIdle /\ SchedIdle /\ FiltIdle /\ CurIdle /\ NormIdle /\ TimerIdle
  /\ files \in SUBSET EarlierFiles
  /\ clock = ClockStart /\ loaded = NotLoaded
  /\ lastSaved = [p \in Prefixes |-> EmptyDF] /\ s_op = "off" /\ removeFailed = FALSE
  /\ call_pc = [c \in Calls |-> "timestamp"]
  /\ call_stamp = [c \in Calls |-> <<>>]
  /\ call_todo = [c \in Calls |-> {}]
  /\ written = {} /\ deletedNew = FALSE /\ listedNew = FALSE

saveRest == <<storeHist, detVars, fetchVars, schedVars, filtVars, curVars, normVars,
              timerVars>>

\* the wall clock advances
ClockTick ==
  /\ clock < MaxClock
  /\ clock' = clock + 1
  /\ UNCHANGED <<files, saveVars, saveRest>>

\* secop.py:153-154
Timestamp(c) ==
  /\ call_pc[c] = "timestamp"
  /\ call_stamp' = [call_stamp EXCEPT ![c] = strftime(clock)]
  /\ call_pc' = [call_pc EXCEPT ![c] = "glob"]
  /\ UNCHANGED <<files, clock, call_todo, written, deletedNew, listedNew, saveRest>>

\* secop.py:157-164  the listing, the sort, and the files to remove
GlobAndSort(c) ==
  /\ call_pc[c] = "glob"
  /\ LET existing == Glob(files, "secop_ii_open")
     IN /\ call_todo' = [call_todo EXCEPT ![c] = {f.stamp : f \in OldFiles(existing)}]
        /\ listedNew' = (listedNew \/ \E f \in existing, w \in written :
                                         w.stamp = f.stamp /\ w.by # c)
  /\ call_pc' = [call_pc EXCEPT ![c] = "remove"]
  /\ UNCHANGED <<files, clock, call_stamp, written, deletedNew, saveRest>>

\* secop.py:164-169  one os.remove(old_file); a file that is gone raises, which is caught
RemoveOld(c) ==
  /\ call_pc[c] = "remove"
  /\ call_todo[c] # {}
  /\ \E n \in call_todo[c] :
       /\ \A m \in call_todo[c] : m = n \/ StrGreater(n, m)
       /\ files' = {f \in files : ~(f.prefix = "secop_ii_open" /\ f.stamp = n)}
       /\ deletedNew' = (deletedNew \/ \E w \in written : w.stamp = n /\ w.by # c)
       /\ written' = {w \in written : w.stamp # n}
       /\ call_todo' = [call_todo EXCEPT ![c] = @ \ {n}]
  /\ UNCHANGED <<clock, call_pc, call_stamp, listedNew, saveRest>>

\* secop.py:172  df.to_csv(new_filename, index=False)
WriteNew(c) ==
  /\ call_pc[c] = "remove"
  /\ call_todo[c] = {}
  /\ files' = {f \in files : ~(f.prefix = "secop_ii_open" /\ f.stamp = call_stamp[c])}
                \cup {File("secop_ii_open", call_stamp[c], to_csv(TableOf(c)))}
  /\ written' = {w \in written : w.stamp # call_stamp[c]}
                  \cup {[stamp |-> call_stamp[c], by |-> c]}
  /\ call_pc' = [call_pc EXCEPT ![c] = "done"]
  /\ UNCHANGED <<clock, call_stamp, call_todo, deletedNew, listedNew, saveRest>>

SaveStep(c) == Timestamp(c) \/ GlobAndSort(c) \/ RemoveOld(c) \/ WriteNew(c)

SaveTwoNext == ClockTick \/ \E c \in Calls : SaveStep(c)

\* a call that has started runs to its end
SpecSaveTwo ==
  SaveTwoInit /\ [][SaveTwoNext]_vars /\ \A c \in Calls : WF_vars(SaveStep(c))

ActiveTables ==
  {[cols |-> CanonCols, rows |-> [i \in 1..k |-> OpenRecord(i)]] : k \in 0..MaxId}

\* scheduler.py:13-17
TimerInit ==
  /\ DetIdle /\ StoreIdle /\ FetchIdle /\ SchedIdle
  /\ FiltIdle /\ CurIdle /\ NormIdle /\ SaveIdle
  /\ scheduler_running = TRUE /\ job_store = {} /\ self_last_data = None
  /\ t_pc = [th \in Threads |-> "idle"]
  /\ t_current = [th \in Threads |-> None] /\ t_previous = [th \in Threads |-> None]
  /\ stop_raised = FALSE

timerRest == <<detVars, storeVars, fetchVars, schedVars, filtVars, curVars, normVars,
               saveVars>>

\* scheduler.py:19-26  add_job(..., id='data_update_job', replace_existing=True)
ScheduleUpdate ==
  /\ job_store' = job_store \cup {"data_update_job"}
  /\ UNCHANGED <<scheduler_running, self_last_data, t_pc, t_current, t_previous,
                 stop_raised, timerRest>>

\* the interval trigger fires: the running scheduler submits the job, one instance at a
\* time (max_instances is left at 1)
TimerFire ==
  /\ scheduler_running
  /\ "data_update_job" \in job_store
  /\ t_pc["timer"] = "idle"
  /\ t_pc' = [t_pc EXCEPT !["timer"] = "fetching"]
  /\ UNCHANGED <<scheduler_running, job_store, self_last_data, t_current, t_previous,
                 stop_raised, timerRest>>

\* scheduler.py:59-61, main.py:99-105  force_update() calls update_data() in the
\* caller's thread
ForceUpdate ==
  /\ t_pc["manual"] = "idle"
  /\ t_pc' = [t_pc EXCEPT !["manual"] = "fetching"]
  /\ UNCHANGED <<scheduler_running, job_store, self_last_data, t_current, t_previous,
                 stop_raised, timerRest>>

\* scheduler.py:35-41  fetch and normalise the active table
CycleFetch(th) ==
  /\ t_pc[th] = "fetching"
  /\ \E df \in ActiveTables : t_current' = [t_current EXCEPT ![th] = df]
  /\ t_pc' = [t_pc EXCEPT ![th] = "diffing"]
  /\ UNCHANGED <<scheduler_running, job_store, self_last_data, t_previous, stop_raised,
                 timerRest>>

\* scheduler.py:35-41, 55-57  an exception: the cycle returns False
CycleFails(th) ==
  /\ t_pc[th] = "fetching"
  /\ t_pc' = [t_pc EXCEPT ![th] = "idle"]
  /\ UNCHANGED <<scheduler_running, job_store, self_last_data, t_current, t_previous,
                 stop_raised, timerRest>>

\* scheduler.py:44-49  self.last_data is read for the diff
CycleDiff(th) ==
  /\ t_pc[th] = "diffing"
  /\ t_previous' = [t_previous EXCEPT ![th] = self_last_data]
  /\ t_pc' = [t_pc EXCEPT ![th] = "updating"]
  /\ UNCHANGED <<scheduler_running, job_store, self_last_data, t_current, stop_raised,
                 timerRest>>

\* scheduler.py:52-54  self.last_data = current_active_df; return True
CycleUpdate(th) ==
  /\ t_pc[th] = "updating"
  /\ self_last_data' = t_current[th]
  /\ t_current' = [t_current EXCEPT ![th] = None]
  /\ t_previous' = [t_previous EXCEPT ![th] = None]
  /\ t_pc' = [t_pc EXCEPT ![th] = "idle"]
  /\ UNCHANGED <<scheduler_running, job_store, stop_raised, timerRest>>

CycleStep(th) == CycleFetch(th) \/ CycleFails(th) \/ CycleDiff(th) \/ CycleUpdate(th)

\* scheduler.py:63-65  self.scheduler.shutdown(): a scheduler that is not running raises
\* SchedulerNotRunningError
Stop ==
  /\ stop_raised' = (stop_raised \/ ~scheduler_running)
  /\ scheduler_running' = FALSE
  /\ UNCHANGED <<job_store, self_last_data, t_pc, t_current, t_previous, timerRest>>

\* main.py:186-190  __del__: try: self.scheduler.stop() except: pass
Teardown ==
  /\ scheduler_running' = FALSE
  /\ UNCHANGED <<job_store, self_last_data, t_pc, t_current, t_previous, stop_raised,
                 timerRest>>

TimerNext ==
  \/ ScheduleUpdate
  \/ TimerFire
  \/ ForceUpdate
  \/ \E th \in Threads : CycleStep(th)
  \/ Stop
  \/ Teardown

\* the trigger of a scheduled job keeps firing, and a cycle that has started runs to its
\* end; nothing obliges anyone to call schedule_update, force_update or stop
SpecTimer ==
  /\ TimerInit /\ [][TimerNext]_vars
  /\ WF_vars(TimerFire)
  /\ \A th \in Threads : WF_vars(CycleStep(th))

\* C21: stop() never raises, however many times it is called; once stopped the timer
\* stays halted.
C21_StopNeverRaises == ~stop_raised

\* C22: from construction on, timer-driven cycles keep occurring without a manual
\* trigger until stop(): again and again a timer-driven cycle is running, or the scheduler
\* is stopped at some point.
C22_TimerCyclesKeepOccurring ==
  ([]<>(t_pc["timer"] # "idle")) \/ <>(~scheduler_running)

\* C24: two cycles never overlap in their access to the snapshot: no two threads are
\* between the read and the write of self.last_data at once, and the snapshot a cycle has
\* diffed against is still the stored one when the cycle writes.
C24_NoOverlappingAccess ==
  /\ ~(t_pc["timer"] = "updating" /\ t_pc["manual"] = "updating")
  /\ \A th \in Threads : t_pc[th] = "updating" => t_previous[th] = self_last_data
====
